---- MODULE Spec2Model ----
(***************************************************************************)
(* Token-bucket rate limiting of js-code-crafter/codeweaver:               *)
(*   MemoryRateLimitStore            src/unnamed/part_013, lines 7-65      *)
(*   RedisRateLimitStore, Lua script src/unnamed/part_012                  *)
(*   rateLimitMiddleware, RateLimit  src/unnamed/part_013, lines 131-244   *)
(*   createMethodDecorator           src/src/core/helpers/comparison.ts    *)
(*                                                                         *)
(* One enforcement call is a small process: it resolves its bucket id,     *)
(* calls store.getBucket, is suspended at the `await`, and on resumption   *)
(* inspects bucket.tokens.  The memory store's getBucket has no await in   *)
(* its body, so the whole body runs in the step that starts the call; the  *)
(* redis store's getBucket reads Date.now(), sends EVAL and is suspended   *)
(* until the service has run the script.                                   *)
(*                                                                         *)
(* The Lua script is modelled by the statements it is written to execute   *)
(* (HMGET, defaults, refill, consume, HMSET, return), run atomically by    *)
(* the service: `// consume` on its line 35 is read as the comment it is   *)
(* meant to be and KEYS[1] as the key getBucket passes.  An EVAL that the  *)
(* service rejects is the separate outcome EvalError.  Hash fields are     *)
(* kept as the integers tonumber() reads back.                             *)
(***************************************************************************)
EXTENDS Integers, Sequences, FiniteSets, TLC

\* ------------------------------------------------------------- bounds
MaxCalls == 2      \* enforcement calls in flight at once
MaxCap == 3        \* rateLimitAllowedCalls arguments are 1..MaxCap
MaxSpan == 1       \* rateLimitTimeSpan arguments are 1..MaxSpan
MaxTime == 2       \* Date.now() ranges over 0..MaxTime

Calls == 1..MaxCalls
Caps == 1..MaxCap
Spans == 1..MaxSpan
\* getBucket accesses followed per window of a bucket
MaxAcc == MaxCap + 1

\* ------------------------------------------------------------- constants
globalBucketId == "[global]"
anonymous == "[anonymous]"
keyPrefix == "rl:bucket:"
TooManyRequests == 429
TooManyRequestsMessage == "Too many requests, please try again later."

\* ------------------------------------------------------------- user ids
\* The value of req.user?.id: its JavaScript type and the text String()
\* and template interpolation give for it.
JsString(s) == [ type |-> "string", text |-> s ]
JsNumber(s) == [ type |-> "number", text |-> s ]
NoUser == [ type |-> "undefined", text |-> "undefined" ]
NullUser == [ type |-> "null", text |-> "null" ]

\* v is null or undefined (the left operand `??` replaces)
Nullish(v) == v.type \in { "undefined", "null" }

\* v is truthy (the condition of `? :`)
Truthy(v) ==
  /\ ~Nullish(v)
  /\ ~(v.type = "string" /\ v.text = "")
  /\ ~(v.type = "number" /\ v.text \in { "0", "NaN" })

\* ------------------------------------------------------------- requests
\* The inbound request of the middleware and the decorated method of
\* RateLimit that the calls of this specification are made on.  route is
\* the route pattern the request matched; req.path is the concrete path.
Requests ==
  { [ route |-> "/", baseUrl |-> "/orders", path |-> "/", method |-> "GET",
      userId |-> NoUser ] }
Targets ==
  { [ className |-> "OrderController", methodName |-> "list",
      userId |-> NoUser ] }
BucketNames == { globalBucketId }

\* req.user?.id ?? "[anonymous]", interpolated into the template string
MiddlewareUser(req) ==
  IF Nullish(req.userId) THEN anonymous ELSE req.userId.text

\* userFromReq?.id ? String(userFromReq.id) : "[anonymous]"
\* (a falsy id, such as 0 or the empty string, is anonymous too)
RateLimitUser(tgt) ==
  IF Truthy(tgt.userId) THEN tgt.userId.text ELSE anonymous

MiddlewareBucketId(bucketName, req) ==
  IF bucketName = globalBucketId
  THEN bucketName \o ".\"" \o req.baseUrl \o req.path \o ":" \o req.method
  ELSE bucketName \o ".\"" \o req.baseUrl \o req.path \o ":" \o req.method
         \o ".\"" \o MiddlewareUser(req)

RateLimitBucketId(bucketName, tgt) ==
  IF bucketName = globalBucketId
  THEN bucketName \o ".\"" \o tgt.className \o ":" \o tgt.methodName \o "\""
  ELSE bucketName \o ".\"" \o tgt.className \o ":" \o tgt.methodName \o "\"."
         \o RateLimitUser(tgt)

BucketIds ==
  { MiddlewareBucketId(n, r) : n \in BucketNames, r \in Requests }
    \cup { RateLimitBucketId(n, t) : n \in BucketNames, t \in Targets }

\* The calls an entry point can make on the given bucket names, requests
\* and decorated methods: what it is called with and the bucket id it
\* resolves.
EntryCallsOf(names, reqs, tgts) ==
  { [ entry |-> "middleware", bucketName |-> n, req |-> r,
      bucketId |-> MiddlewareBucketId(n, r) ] : n \in names, r \in reqs }
    \cup
  { [ entry |-> "decorator", bucketName |-> n, req |-> t,
      bucketId |-> RateLimitBucketId(n, t) ] : n \in names, t \in tgts }

\* ------------------------------------------------------------- scopes
\* Limiters of both scopes on two operations of one route (GET and DELETE
\* /orders/:id, requested for two ids) and on two methods of one class,
\* called without user, with a null id, with the ids 0 and "" and with a
\* non-empty string id.  Any bucketName other than "[global]" makes the
\* limiter per-user.
ScopedBucketName == "[scoped]"
ScopeBucketNames == { globalBucketId, ScopedBucketName }
ScopeUserIds ==
  { NoUser, NullUser, JsNumber("0"), JsString(""), JsString("alice") }
ScopeRequests ==
  { [ route |-> "/:id", baseUrl |-> "/orders", path |-> p, method |-> m,
      userId |-> u ] :
      p \in { "/1", "/2" }, m \in { "GET", "DELETE" }, u \in ScopeUserIds }
ScopeTargets ==
  { [ className |-> "OrderController", methodName |-> m, userId |-> u ] :
      m \in { "get", "remove" }, u \in ScopeUserIds }
ScopeEntryCalls == EntryCallsOf(ScopeBucketNames, ScopeRequests, ScopeTargets)
ScopeBucketIds == { e.bucketId : e \in ScopeEntryCalls }
\* rateLimitAllowedCalls of these limiters
ScopeAllowedCalls == 1

\* encodeURIComponent: every character outside A-Z a-z 0-9 - _ . ! ~ * ' ( )
\* is replaced by its %XX escape (the reserved characters bucket ids are
\* built from are listed; any other character stands for itself).
Escape(ch) ==
  CASE ch = "[" -> "%5B"
    [] ch = "]" -> "%5D"
    [] ch = "\"" -> "%22"
    [] ch = "/" -> "%2F"
    [] ch = ":" -> "%3A"
    [] OTHER -> ch

RECURSIVE encodeURIComponent(_)
encodeURIComponent(s) ==
  IF s = "" THEN ""
  ELSE Escape(SubSeq(s, 1, 1)) \o encodeURIComponent(SubSeq(s, 2, Len(s)))

\* bucketKey: keyPrefix + encodeURIComponent(bucketId), computed once for
\* the bucket ids of the module.
BucketKeys ==
  [ b \in BucketIds \cup ScopeBucketIds |-> keyPrefix \o encodeURIComponent(b) ]

bucketKey(bucketId) == BucketKeys[bucketId]


\* ------------------------------------------------------------- records
\* RateLimitRecord without its bucketId (the key it is stored under).
Record(cap, span, tokens, resetTime, lastUpdated) ==
  [ rateLimitAllowedCalls |-> cap, rateLimitTimeSpan |-> span,
    tokens |-> tokens, resetTime |-> resetTime, lastUpdated |-> lastUpdated ]

NoRecord == Record(0, 0, 0, 0, 0)

\* new Map() / an empty database
EmptyMap == [ x \in {} |-> NoRecord ]

\* Mutant of Without: the deletion takes every key with it.
Without_Clears(m, k) == [ x \in {} |-> m[k] ]

\* Map.delete / DEL: the mapping without key k
Without(m, k) == [ x \in DOMAIN m \ {k} |-> m[x] ]

\* Map.set / HMSET of all fields: the mapping with k bound to r
With(m, k, r) == [ x \in DOMAIN m \cup {k} |-> IF x = k THEN r ELSE m[x] ]

\* ------------------------------------------------------------- memory store
\* Mutant of MemoryGetBucket: the consume test reads `bucket.tokens > 1`,
\* so the last token is never taken.
MemoryGetBucket_KeepsLastToken(store, bucketId, rateLimitAllowedCalls, rateLimitTimeSpan, now) ==
  IF bucketId \notin DOMAIN store
  THEN Record(rateLimitAllowedCalls, rateLimitTimeSpan,
              rateLimitAllowedCalls, now, now)
  ELSE LET bucket == store[bucketId]
           elapsed == now - bucket.resetTime
       IN  IF elapsed > bucket.rateLimitTimeSpan
           THEN [ bucket EXCEPT !.resetTime = now,
                                !.tokens = bucket.rateLimitAllowedCalls,
                                !.lastUpdated = now ]
           ELSE IF bucket.tokens > 1
           THEN [ bucket EXCEPT !.tokens = bucket.tokens - 1,
                                !.lastUpdated = now ]
           ELSE [ bucket EXCEPT !.lastUpdated = now ]

\* Mutant of MemoryGetBucket: a refill takes the capacity and window of the
\* call's arguments, resizing the bucket.
MemoryGetBucket_ResizesOnRefill(store, bucketId, rateLimitAllowedCalls, rateLimitTimeSpan, now) ==
  IF bucketId \notin DOMAIN store
  THEN Record(rateLimitAllowedCalls, rateLimitTimeSpan,
              rateLimitAllowedCalls, now, now)
  ELSE LET bucket == store[bucketId]
           elapsed == now - bucket.resetTime
       IN  IF elapsed > bucket.rateLimitTimeSpan
           THEN Record(rateLimitAllowedCalls, rateLimitTimeSpan,
                       rateLimitAllowedCalls, now, now)
           ELSE IF bucket.tokens > 0
           THEN [ bucket EXCEPT !.tokens = bucket.tokens - 1,
                                !.lastUpdated = now ]
           ELSE [ bucket EXCEPT !.lastUpdated = now ]

\* Mutant of MemoryGetBucket: the window counts as elapsed as soon as
\* elapsed reaches rateLimitTimeSpan (`>=` for `>`).
MemoryGetBucket_RefillsAtSpan(store, bucketId, rateLimitAllowedCalls, rateLimitTimeSpan, now) ==
  IF bucketId \notin DOMAIN store
  THEN Record(rateLimitAllowedCalls, rateLimitTimeSpan,
              rateLimitAllowedCalls, now, now)
  ELSE LET bucket == store[bucketId]
           elapsed == now - bucket.resetTime
       IN  IF elapsed >= bucket.rateLimitTimeSpan
           THEN [ bucket EXCEPT !.resetTime = now,
                                !.tokens = bucket.rateLimitAllowedCalls,
                                !.lastUpdated = now ]
           ELSE IF bucket.tokens > 0
           THEN [ bucket EXCEPT !.tokens = bucket.tokens - 1,
                                !.lastUpdated = now ]
           ELSE [ bucket EXCEPT !.lastUpdated = now ]

\* MemoryRateLimitStore.getBucket: the record the map holds for bucketId
\* after the call.  The object returned to the caller is that same object.
MemoryGetBucket(store, bucketId, rateLimitAllowedCalls, rateLimitTimeSpan, now) ==
  IF bucketId \notin DOMAIN store
  THEN Record(rateLimitAllowedCalls, rateLimitTimeSpan,
              rateLimitAllowedCalls, now, now)
  ELSE LET bucket == store[bucketId]
           elapsed == now - bucket.resetTime
       IN  IF elapsed > bucket.rateLimitTimeSpan
           THEN [ bucket EXCEPT !.resetTime = now,
                                !.tokens = bucket.rateLimitAllowedCalls,
                                !.lastUpdated = now ]
           ELSE IF bucket.tokens > 0
           THEN [ bucket EXCEPT !.tokens = bucket.tokens - 1,
                                !.lastUpdated = now ]
           ELSE [ bucket EXCEPT !.lastUpdated = now ]

\* ------------------------------------------------------------- redis store
\* Mutant of LuaScript: tokens is read from the wrong HMGET slot (the
\* stored capacity), so the tokens other calls consumed are forgotten.
LuaScript_StaleTokens(db, key, argCalls, argSpan, now) ==
  LET present == key \in DOMAIN db
      tokens0 == IF present THEN db[key].rateLimitAllowedCalls ELSE argCalls
      resetTime0 == IF present THEN db[key].resetTime ELSE now
      rateLimitAllowedCalls ==
        IF present THEN db[key].rateLimitAllowedCalls ELSE argCalls
      rateLimitTimeSpan ==
        IF present THEN db[key].rateLimitTimeSpan ELSE argSpan
      elapsed == now - resetTime0
      refill == elapsed > rateLimitTimeSpan
      resetTime == IF refill THEN now ELSE resetTime0
      tokens1 == IF refill THEN rateLimitAllowedCalls ELSE tokens0
      tokens == IF tokens1 > 0 THEN tokens1 - 1 ELSE tokens1
      lastUpdated == now
  IN  [ hash |-> Record(rateLimitAllowedCalls, rateLimitTimeSpan,
                        tokens, resetTime, lastUpdated),
        result |-> << 1, tokens, resetTime, lastUpdated >> ]

\* The Lua script: the hash written under key and the array returned.
LuaScript(db, key, argCalls, argSpan, now) ==
  LET present == key \in DOMAIN db
      tokens0 == IF present THEN db[key].tokens ELSE argCalls
      resetTime0 == IF present THEN db[key].resetTime ELSE now
      rateLimitAllowedCalls ==
        IF present THEN db[key].rateLimitAllowedCalls ELSE argCalls
      rateLimitTimeSpan ==
        IF present THEN db[key].rateLimitTimeSpan ELSE argSpan
      elapsed == now - resetTime0
      refill == elapsed > rateLimitTimeSpan
      resetTime == IF refill THEN now ELSE resetTime0
      tokens1 == IF refill THEN rateLimitAllowedCalls ELSE tokens0
      tokens == IF tokens1 > 0 THEN tokens1 - 1 ELSE tokens1
      lastUpdated == now
  IN  [ hash |-> Record(rateLimitAllowedCalls, rateLimitTimeSpan,
                        tokens, resetTime, lastUpdated),
        result |-> << 1, tokens, resetTime, lastUpdated >> ]

\* RedisRateLimitStore.getBucket from the point where `await redis.eval`
\* has resolved to result, db being the database the service then holds:
\* the record getBucket returns and the database it leaves (the `ok !== 1`
\* branch overwrites the hash with a full bucket).
RedisAfterEval(db, key, rateLimitAllowedCalls, rateLimitTimeSpan, now, result) ==
  LET ok == result[1]
      fallback == Record(rateLimitAllowedCalls, rateLimitTimeSpan,
                         rateLimitAllowedCalls, now, now)
  IN  IF ok # 1
      THEN [ db |-> With(db, key, fallback), bucket |-> fallback ]
      ELSE [ db |-> db,
             bucket |-> Record(rateLimitAllowedCalls, rateLimitTimeSpan,
                               result[2], result[3], result[4]) ]

\* RedisRateLimitStore.getBucket when the service runs the script: the
\* script writes the hash, and getBucket continues with the script's array.
RedisGetBucket(db, bucketId, rateLimitAllowedCalls, rateLimitTimeSpan, now) ==
  LET key == bucketKey(bucketId)
      ev == LuaScript(db, key, rateLimitAllowedCalls, rateLimitTimeSpan, now)
  IN  RedisAfterEval(With(db, key, ev.hash), key, rateLimitAllowedCalls,
                     rateLimitTimeSpan, now, ev.result)

\* ------------------------------------------------------------- enforcement
Null == "null"
Undefined == "undefined"
\* The exceed handler raises instead of returning.
Raises == "<raises>"
MethodResults == { Null, "Success" }
HandlerResults == { Null, "fallback" }
\* Everything an exceed handler can do: return null, undefined or a value,
\* or raise.
HandlerOutcomes == HandlerResults \cup { Undefined, Raises }

\* What one enforcement call did: admitted (it found bucket.tokens >= 1),
\* invoked (calls of next() / of the protected method), handlerCalls (calls
\* of exceedHandler), the error it raised with its status and message, and
\* the value it returned.
Outcome(admitted, invoked, handlerCalls, error, status, message, result) ==
  [ admitted |-> admitted, invoked |-> invoked, handlerCalls |-> handlerCalls,
    error |-> error, status |-> status, message |-> message,
    result |-> result ]

NoOutcome == Outcome(FALSE, 0, 0, "none", 0, "", Null)

\* `await store.getBucket(...)` throws err: neither entry point catches it,
\* so nothing after the await runs and err leaves the entry point.
GetBucketRejected(err) == Outcome(FALSE, 0, 0, err, 0, "", Null)

\* rateLimitMiddleware after `await store.getBucket`: next() when
\* bucket.tokens >= 1, and then, with no return in between, the exceed
\* handler or the 429 error.  invoked counts the calls of next() made by
\* the middleware itself; express ignores what the middleware returns.
MiddlewareResume(tokens, hasHandler, handlerResult) ==
  LET nextCalls == IF tokens >= 1 THEN 1 ELSE 0
  IN  IF hasHandler
      THEN IF handlerResult = Raises
           THEN Outcome(tokens >= 1, nextCalls, 1, "HandlerError", 0, "", Null)
           ELSE Outcome(tokens >= 1, nextCalls, 1, "none", 0, "", Null)
      ELSE Outcome(tokens >= 1, nextCalls, 0, "ResponseError",
                   TooManyRequests, TooManyRequestsMessage, Null)

\* Mutant of RateLimitBefore: a denied call without exceed handler resolves
\* to null instead of raising the 429 error.
RateLimitBefore_DeniedResolvesNull(tokens, hasHandler, methodResult, handlerResult) ==
  IF tokens >= 1
  THEN Outcome(TRUE, 1, 0, "none", 0, "", methodResult)
  ELSE IF hasHandler
  THEN IF handlerResult = Raises
       THEN Outcome(FALSE, 0, 1, "HandlerError", 0, "", Null)
       ELSE Outcome(FALSE, 0, 1, "none", 0, "", handlerResult)
  ELSE Outcome(FALSE, 0, 0, "none", 0, "", Null)

\* The before hook RateLimit gives createMethodDecorator, after
\* `await store.getBucket`.
RateLimitBefore(tokens, hasHandler, methodResult, handlerResult) ==
  IF tokens >= 1
  THEN Outcome(TRUE, 1, 0, "none", 0, "", methodResult)
  ELSE IF hasHandler
  THEN IF handlerResult = Raises
       THEN Outcome(FALSE, 0, 1, "HandlerError", 0, "", Null)
       ELSE Outcome(FALSE, 0, 1, "none", 0, "", handlerResult)
  ELSE Outcome(FALSE, 0, 0, "ResponseError", TooManyRequests,
               TooManyRequestsMessage, Null)

\* Mutant of WrapperResume: an error of the before hook is swallowed and
\* the original method runs (fail-open).
WrapperResume_FailOpen(before, methodResult) ==
  IF before.error # "none" \/ before.result = Null
  THEN [ before EXCEPT !.invoked = before.invoked + 1, !.error = "none",
                       !.status = 0, !.message = "", !.result = methodResult ]
  ELSE before

\* The wrapper createMethodDecorator installs: the original method runs
\* when the before hook resolved to null, otherwise the hook's value is the
\* result; there is no after hook.
WrapperResume(before, methodResult) ==
  IF before.error # "none"
  THEN before
  ELSE IF before.result = Null
  THEN [ before EXCEPT !.invoked = before.invoked + 1, !.result = methodResult ]
  ELSE before

RateLimitResume(tokens, hasHandler, methodResult, handlerResult) ==
  WrapperResume(RateLimitBefore(tokens, hasHandler, methodResult, handlerResult),
                methodResult)

\* The entry points when `await store.getBucket(...)` throws err.
MiddlewareRejected(err) == GetBucketRejected(err)

RateLimitRejected(err, methodResult) ==
  WrapperResume(GetBucketRejected(err), methodResult)

\* ------------------------------------------------------------- state
VARIABLES
  clock,        \* Date.now()
  storeKind,    \* the store the enforcement layer was built with
  entryKind,    \* the entry point that protects the operation
  store,        \* MemoryRateLimitStore.store: bucketId -> record
  rdb,          \* the redis database: key -> hash
  pendingDel,   \* DEL commands sent by remove() and not yet executed
  pendingFlush, \* a FLUSHDB sent by removeAll() and not yet executed
  calls,        \* the enforcement calls
  hist          \* history: per bucket, the accesses of its current window

vars == << clock, storeKind, entryKind, store, rdb, pendingDel, pendingFlush, calls, hist >>

\* A call.  bucketName, req: the bucket name of the limiter and the request
\* (or decorated method and its caller) the call is made with.  pc: "idle", "eval" (redis: EVAL sent), "await" (getBucket has
\* returned, the caller not yet resumed), "done".  cap, span, now: the
\* arguments of a pending EVAL.  bucket: the record getBucket returned;
\* alias: that record is the object the memory store's map holds.  seen: the
\* tokens the caller read on resumption.  History fields: ord (which access
\* of the bucket's window this was), didReset (the access refilled the
\* bucket), stale (the bucket was created anew, refilled or deleted after
\* this access; ord and didReset are then cleared).
NoRequest == [ userId |-> NoUser ]

IdleCall ==
  [ pc |-> "idle", entry |-> "none", bucketName |-> "", req |-> NoRequest,
    bucketId |-> "", cap |-> 0, span |-> 0,
    now |-> 0, bucket |-> NoRecord, alias |-> FALSE,
    seen |-> 0, out |-> NoOutcome,
    ord |-> 0, didReset |-> FALSE, stale |-> FALSE ]

\* A call starts in the lowest slot that holds no call in progress; the
\* outcome of a finished call stays in its slot until the slot is used again.
Free(c) == calls[c].pc \in { "idle", "done" }

FreeSlot(c) == Free(c) /\ \A d \in Calls : d < c => ~Free(d)

\* History of the current window of a bucket: acc, the getBucket accesses
\* in it; adm, the calls among them that were admitted; fresh, the window
\* began with the creation of the bucket.
NoHist == [ acc |-> 0, adm |-> 0, fresh |-> FALSE ]

Init ==
  /\ clock = 0
  /\ storeKind \in { "memory", "redis" }
  /\ entryKind \in { "middleware", "decorator" }
  /\ store = EmptyMap
  /\ rdb = EmptyMap
  /\ pendingDel = {}
  /\ pendingFlush = FALSE
  /\ calls = [ c \in Calls |-> IdleCall ]
  /\ hist = [ b \in BucketIds |-> NoHist ]

\* The bucket id stored under a key (the ids in use are those hist follows).
BucketOfKey(key) == CHOOSE b \in DOMAIN hist : bucketKey(b) = key

\* The record behind the reference call c holds.
Deref(c) ==
  IF calls[c].alias THEN store[calls[c].bucketId] ELSE calls[c].bucket

\* The calls an entry point can make: the bucket id it resolves.
EntryCalls == EntryCallsOf(BucketNames, Requests, Targets)

\* ------------------------------------------------------------- history
\* Whether the access finds the window elapsed, and the tokens the bucket
\* holds when the access decides on consuming (after creation or refill).
WindowElapsed(m, k, now) ==
  k \in DOMAIN m /\ now - m[k].resetTime > m[k].rateLimitTimeSpan

TokensAtDecision(m, k, cap, now) ==
  IF k \notin DOMAIN m THEN cap
  ELSE IF WindowElapsed(m, k, now) THEN m[k].rateLimitAllowedCalls
  ELSE m[k].tokens

\* The window of bucket b began anew (creation or refill) with this access.
HistOpen(b, created) ==
  [ hist EXCEPT ![b] = [ acc |-> 1, adm |-> 0, fresh |-> created ] ]

HistAccess(b) == [ hist EXCEPT ![b].acc = @ + 1 ]

\* The suspended callers of bucket b now hold a record of a past window.
\* A caller of the memory store keeps the object it was given: once the
\* map drops that object (detach) nobody writes to it any more.
Outdated(b, detach) ==
  [ x \in Calls |->
      IF calls[x].pc = "await" /\ calls[x].bucketId = b
      THEN [ calls[x] EXCEPT !.stale = TRUE, !.ord = 0, !.didReset = FALSE,
                             !.bucket = IF detach THEN Deref(x) ELSE @,
                             !.alias = IF detach THEN FALSE ELSE @ ]
      ELSE calls[x] ]

\* ------------------------------------------------------------- actions
\* Mutant of Tick: a bucket whose window has elapsed is dropped by the
\* store when time passes (expiry).
Tick_Expires ==
  /\ clock < MaxTime
  /\ clock' = clock + 1
  /\ store' = [ b \in { x \in DOMAIN store :
                          clock' - store[x].resetTime <= store[x].rateLimitTimeSpan }
                 |-> store[b] ]
  /\ rdb' = [ k \in { x \in DOMAIN rdb :
                        clock' - rdb[x].resetTime <= rdb[x].rateLimitTimeSpan }
               |-> rdb[k] ]
  /\ UNCHANGED << storeKind, entryKind, pendingDel, pendingFlush, calls, hist >>

Tick ==
  /\ clock < MaxTime
  /\ clock' = clock + 1
  /\ UNCHANGED << storeKind, entryKind, store, rdb, pendingDel, pendingFlush, calls, hist >>

\* An enforcement call on the memory store, up to its suspension at
\* `await store.getBucket(...)`: bucket id, then the whole getBucket body.
MemoryCallWith(c, e, cap, span) ==
  LET b == e.bucketId
      now == clock
      created == b \notin DOMAIN store
      didReset == WindowElapsed(store, b, now)
      opened == created \/ didReset
      bucket == MemoryGetBucket(store, b, cap, span, now)
      base == IF opened THEN Outdated(b, FALSE) ELSE calls
  IN  /\ opened \/ hist[b].acc < MaxAcc
      /\ store' = With(store, b, bucket)
      /\ hist' = IF opened THEN HistOpen(b, created) ELSE HistAccess(b)
      /\ calls' = [ base EXCEPT ![c] =
            [ IdleCall EXCEPT !.pc = "await", !.entry = e.entry,
                !.bucketName = e.bucketName, !.req = e.req,
                !.bucketId = b, !.alias = TRUE,
                !.ord = hist'[b].acc, !.didReset = didReset ] ]

MemoryCall(c) ==
  /\ storeKind = "memory"
  /\ FreeSlot(c)
  /\ \E e \in { x \in EntryCalls : x.entry = entryKind }, cap \in Caps, span \in Spans :
       MemoryCallWith(c, e, cap, span)
  /\ UNCHANGED << clock, storeKind, entryKind, rdb, pendingDel, pendingFlush >>

\* An enforcement call on the redis store, up to the suspension of
\* getBucket at `await this.redis.eval(...)`: it has read Date.now().
RedisCallWith(c, e, cap, span) ==
  calls' = [ calls EXCEPT ![c] =
    [ IdleCall EXCEPT !.pc = "eval", !.entry = e.entry,
        !.bucketName = e.bucketName, !.req = e.req,
        !.bucketId = e.bucketId, !.cap = cap, !.span = span,
        !.now = clock ] ]

RedisCall(c) ==
  /\ storeKind = "redis"
  /\ FreeSlot(c)
  /\ \E e \in { x \in EntryCalls : x.entry = entryKind }, cap \in Caps, span \in Spans :
       RedisCallWith(c, e, cap, span)
  /\ UNCHANGED << clock, storeKind, entryKind, store, rdb, pendingDel, pendingFlush, hist >>

\* The service runs the script of call c, and getBucket returns.
Eval(c) ==
  /\ calls[c].pc = "eval"
  /\ LET b == calls[c].bucketId
         key == bucketKey(b)
         now == calls[c].now
         created == key \notin DOMAIN rdb
         didReset == WindowElapsed(rdb, key, now)
         opened == created \/ didReset
         r == RedisGetBucket(rdb, b, calls[c].cap, calls[c].span, now)
         base == IF opened THEN Outdated(b, FALSE) ELSE calls
     IN  /\ opened \/ hist[b].acc < MaxAcc
         /\ rdb' = r.db
         /\ hist' = IF opened THEN HistOpen(b, created) ELSE HistAccess(b)
         /\ calls' = [ base EXCEPT ![c] =
               [ calls[c] EXCEPT !.pc = "await", !.bucket = r.bucket,
                   !.cap = 0, !.span = 0, !.now = 0,
                   !.ord = hist'[b].acc, !.didReset = didReset ] ]
  /\ UNCHANGED << clock, storeKind, entryKind, store, pendingDel, pendingFlush >>

\* The service rejects the EVAL of call c: `await this.redis.eval` throws,
\* and the error leaves getBucket and the entry point.
EvalError(c) ==
  /\ calls[c].pc = "eval"
  /\ \E mr \in MethodResults :
       LET out == IF calls[c].entry = "middleware"
                  THEN MiddlewareRejected("EvalError")
                  ELSE RateLimitRejected("EvalError", mr)
       IN  calls' = [ calls EXCEPT ![c] =
             [ IdleCall EXCEPT !.pc = "done", !.entry = calls[c].entry,
                 !.bucketName = calls[c].bucketName, !.req = calls[c].req,
                 !.bucketId = calls[c].bucketId, !.out = out ] ]
  /\ UNCHANGED << clock, storeKind, entryKind, store, rdb, pendingDel, pendingFlush, hist >>

\* The caller of getBucket resumes and inspects bucket.tokens.
ResumeWith(c, h, mr, hr) ==
  LET b == calls[c].bucketId
      bucket == Deref(c)
      out == IF calls[c].entry = "middleware"
             THEN MiddlewareResume(bucket.tokens, h, hr)
             ELSE RateLimitResume(bucket.tokens, h, mr, hr)
  IN  /\ calls' = [ calls EXCEPT ![c] =
            [ IdleCall EXCEPT !.pc = "done", !.entry = calls[c].entry,
                !.bucketName = calls[c].bucketName, !.req = calls[c].req,
                !.bucketId = b, !.seen = bucket.tokens, !.out = out ] ]
      /\ hist' = IF ~calls[c].stale /\ out.admitted
                 THEN [ hist EXCEPT ![b].adm = @ + 1 ]
                 ELSE hist

Resume(c) ==
  /\ calls[c].pc = "await"
  /\ \E h \in BOOLEAN, mr \in MethodResults, hr \in HandlerResults :
       ResumeWith(c, h, mr, hr)
  /\ UNCHANGED << clock, storeKind, entryKind, store, rdb, pendingDel, pendingFlush >>

\* MemoryRateLimitStore.remove
MemoryRemove(b) ==
  /\ storeKind = "memory"
  /\ store' = Without(store, b)
  /\ calls' = Outdated(b, TRUE)
  /\ hist' = [ hist EXCEPT ![b] = NoHist ]
  /\ UNCHANGED << clock, storeKind, entryKind, rdb, pendingDel, pendingFlush >>

\* MemoryRateLimitStore.removeAll
MemoryRemoveAll ==
  /\ storeKind = "memory"
  /\ store' = EmptyMap
  /\ calls' = [ x \in Calls |->
       IF calls[x].pc = "await"
       THEN [ calls[x] EXCEPT !.stale = TRUE, !.ord = 0, !.didReset = FALSE,
                              !.bucket = Deref(x), !.alias = FALSE ]
       ELSE calls[x] ]
  /\ hist' = [ b \in DOMAIN hist |-> NoHist ]
  /\ UNCHANGED << clock, storeKind, entryKind, rdb, pendingDel, pendingFlush >>

\* A command sent and not awaited has no effect until the service executes
\* it, so a second one is sent only when the first has been executed.
NothingPending == pendingDel = {} /\ ~pendingFlush

\* RedisRateLimitStore.remove: DEL is sent and not awaited
RedisRemove(b) ==
  /\ storeKind = "redis"
  /\ NothingPending
  /\ pendingDel' = pendingDel \cup { bucketKey(b) }
  /\ UNCHANGED << clock, storeKind, entryKind, store, rdb, pendingFlush, calls, hist >>

\* The service executes a DEL
RedisDel(key) ==
  /\ key \in pendingDel
  /\ pendingDel' = pendingDel \ { key }
  /\ rdb' = Without(rdb, key)
  /\ calls' = Outdated(BucketOfKey(key), FALSE)
  /\ hist' = [ hist EXCEPT ![BucketOfKey(key)] = NoHist ]
  /\ UNCHANGED << clock, storeKind, entryKind, store, pendingFlush >>

\* RedisRateLimitStore.removeAll: FLUSHDB is sent and not awaited
RedisRemoveAll ==
  /\ storeKind = "redis"
  /\ NothingPending
  /\ pendingFlush' = TRUE
  /\ UNCHANGED << clock, storeKind, entryKind, store, rdb, pendingDel, calls, hist >>

\* The service executes the FLUSHDB
RedisFlushdb ==
  /\ pendingFlush
  /\ pendingFlush' = FALSE
  /\ rdb' = EmptyMap
  /\ calls' = [ x \in Calls |->
       IF calls[x].pc = "await"
       THEN [ calls[x] EXCEPT !.stale = TRUE, !.ord = 0, !.didReset = FALSE ]
       ELSE calls[x] ]
  /\ hist' = [ b \in DOMAIN hist |-> NoHist ]
  /\ UNCHANGED << clock, storeKind, entryKind, store, pendingDel >>

Next ==
  \/ Tick
  \/ \E c \in Calls : MemoryCall(c)
  \/ \E c \in Calls : RedisCall(c)
  \/ \E c \in Calls : Eval(c)
  \/ \E c \in Calls : EvalError(c)
  \/ \E c \in Calls : Resume(c)
  \/ \E b \in BucketIds : MemoryRemove(b)
  \/ MemoryRemoveAll
  \/ \E b \in BucketIds : RedisRemove(b)
  \/ \E key \in pendingDel : RedisDel(key)
  \/ RedisRemoveAll
  \/ RedisFlushdb

Spec == Init /\ [][Next]_vars

\* ------------------------------------------------------------- scoped calls
\* Limiters of both scopes, configured with ScopeAllowedCalls calls per
\* window of MaxSpan, on one store; MaxCalls calls are made within one
\* window, each with any of the requests (or on any of the methods).
ScopeInit ==
  /\ clock = 0
  /\ storeKind \in { "memory", "redis" }
  /\ entryKind \in { "middleware", "decorator" }
  /\ store = EmptyMap
  /\ rdb = EmptyMap
  /\ pendingDel = {}
  /\ pendingFlush = FALSE
  /\ calls = [ c \in Calls |-> IdleCall ]
  /\ hist = [ b \in ScopeBucketIds |-> NoHist ]

\* The next call is made in the lowest slot not yet used.
UnusedSlot(c) ==
  calls[c].pc = "idle" /\ \A d \in Calls : d < c => calls[d].pc # "idle"

ScopeMemoryCall(c) ==
  /\ storeKind = "memory"
  /\ UnusedSlot(c)
  /\ \E e \in { x \in ScopeEntryCalls : x.entry = entryKind } :
       MemoryCallWith(c, e, ScopeAllowedCalls, MaxSpan)
  /\ UNCHANGED << clock, storeKind, entryKind, rdb, pendingDel, pendingFlush >>

ScopeRedisCall(c) ==
  /\ storeKind = "redis"
  /\ UnusedSlot(c)
  /\ \E e \in { x \in ScopeEntryCalls : x.entry = entryKind } :
       RedisCallWith(c, e, ScopeAllowedCalls, MaxSpan)
  /\ UNCHANGED << clock, storeKind, entryKind, store, rdb, pendingDel, pendingFlush, hist >>

\* The caller resumes; no exceed handler is configured and the protected
\* method returns a value.
ScopeResume(c) ==
  /\ calls[c].pc = "await"
  /\ ResumeWith(c, FALSE, "Success", Null)
  /\ UNCHANGED << clock, storeKind, entryKind, store, rdb, pendingDel, pendingFlush >>

ScopeNext ==
  \/ \E c \in Calls : ScopeMemoryCall(c)
  \/ \E c \in Calls : ScopeRedisCall(c)
  \/ \E c \in Calls : Eval(c)
  \/ \E c \in Calls : ScopeResume(c)

SpecScope == ScopeInit /\ [][ScopeNext]_vars

\* ------------------------------------------------------------- arguments
\* The stores called directly, with any arguments a caller can pass:
\* neither store, nor the entry points, look at rateLimitAllowedCalls or
\* rateLimitTimeSpan before using them, so zero is passed on as it is.
ArgCaps == 0..MaxCap
ArgSpans == 0..MaxSpan

\* `await store.getBucket(bucketId, cap, span)` on the memory store
StoreMemoryGetBucket(c) ==
  /\ storeKind = "memory"
  /\ FreeSlot(c)
  /\ \E e \in { x \in EntryCalls : x.entry = entryKind },
        cap \in ArgCaps, span \in ArgSpans :
       MemoryCallWith(c, e, cap, span)
  /\ UNCHANGED << clock, storeKind, entryKind, rdb, pendingDel, pendingFlush >>

\* `await store.getBucket(bucketId, cap, span)` on the redis store, up to
\* `await this.redis.eval(...)`
StoreRedisGetBucket(c) ==
  /\ storeKind = "redis"
  /\ FreeSlot(c)
  /\ \E e \in { x \in EntryCalls : x.entry = entryKind },
        cap \in ArgCaps, span \in ArgSpans :
       RedisCallWith(c, e, cap, span)
  /\ UNCHANGED << clock, storeKind, entryKind, store, rdb, pendingDel, pendingFlush, hist >>

\* The caller of getBucket has the record and is finished with it.
Return(c) ==
  /\ calls[c].pc = "await"
  /\ calls' = [ calls EXCEPT ![c] = IdleCall ]
  /\ UNCHANGED << clock, storeKind, entryKind, store, rdb, pendingDel, pendingFlush, hist >>

ArgsNext ==
  \/ Tick
  \/ \E c \in Calls : StoreMemoryGetBucket(c)
  \/ \E c \in Calls : StoreRedisGetBucket(c)
  \/ \E c \in Calls : Eval(c)
  \/ \E c \in Calls : Return(c)

SpecArgs == Init /\ [][ArgsNext]_vars

\* ------------------------------------------------------------- administration
\* remove and removeAll on a store that holds the buckets of both entry
\* points, the redis store in a database it shares with other users: the
\* database starts with an entry that is not a bucket record.
ForeignEntries == [ k \in { "session:42" } |-> "data" ]

\* key is a bucket key of the store: it begins with keyPrefix
IsBucketKey(key) ==
  /\ Len(key) >= Len(keyPrefix)
  /\ SubSeq(key, 1, Len(keyPrefix)) = keyPrefix

AdminInit ==
  /\ clock = 0
  /\ storeKind \in { "memory", "redis" }
  /\ entryKind = "middleware"
  /\ store = EmptyMap
  /\ rdb = ForeignEntries
  /\ pendingDel = {}
  /\ pendingFlush = FALSE
  /\ calls = [ c \in Calls |-> IdleCall ]
  /\ hist = [ b \in BucketIds |-> NoHist ]

\* `await store.getBucket(bucketId, cap, span)` with the bucket id of
\* either entry point, on the memory store
AdminMemoryGetBucket(c) ==
  /\ storeKind = "memory"
  /\ FreeSlot(c)
  /\ \E e \in EntryCalls, cap \in Caps, span \in Spans :
       MemoryCallWith(c, e, cap, span)
  /\ UNCHANGED << clock, storeKind, entryKind, rdb, pendingDel, pendingFlush >>

\* the same on the redis store, up to `await this.redis.eval(...)`
AdminRedisGetBucket(c) ==
  /\ storeKind = "redis"
  /\ FreeSlot(c)
  /\ \E e \in EntryCalls, cap \in Caps, span \in Spans :
       RedisCallWith(c, e, cap, span)
  /\ UNCHANGED << clock, storeKind, entryKind, store, rdb, pendingDel, pendingFlush, hist >>

AdminNext ==
  \/ \E c \in Calls : AdminMemoryGetBucket(c)
  \/ \E c \in Calls : AdminRedisGetBucket(c)
  \/ \E c \in Calls : Eval(c)
  \/ \E c \in Calls : Return(c)
  \/ \E b \in BucketIds : MemoryRemove(b)
  \/ MemoryRemoveAll
  \/ \E b \in BucketIds : RedisRemove(b)
  \/ \E key \in pendingDel : RedisDel(key)
  \/ RedisRemoveAll
  \/ RedisFlushdb

SpecAdmin == AdminInit /\ [][AdminNext]_vars

\* ------------------------------------------------------------- rolling window
\* One client behind the middleware, every request handled to its end
\* before the next one arrives, with a window longer than one instant and
\* a clock that runs past its end.  Here hist counts, for each bucket and
\* each instant, the requests admitted at that instant.
WindowSpan == MaxSpan + 1
WindowTimes == 0..(MaxTime + 1)

WindowInit ==
  /\ clock = 0
  /\ storeKind \in { "memory", "redis" }
  /\ entryKind = "middleware"
  /\ store = EmptyMap
  /\ rdb = EmptyMap
  /\ pendingDel = {}
  /\ pendingFlush = FALSE
  /\ calls = [ c \in Calls |-> IdleCall ]
  /\ hist = [ b \in BucketIds |-> [ t \in WindowTimes |-> 0 ] ]

WindowTick ==
  /\ clock + 1 \in WindowTimes
  /\ clock' = clock + 1
  /\ UNCHANGED << storeKind, entryKind, store, rdb, pendingDel, pendingFlush, calls, hist >>

\* hist after a request on bucket b that read `tokens` from its record
Counted(b, tokens) ==
  IF MiddlewareResume(tokens, FALSE, Null).admitted
  THEN [ hist EXCEPT ![b][clock] = @ + 1 ]
  ELSE hist

\* rateLimitMiddleware on the memory store, from getBucket to the decision
WindowMemoryRequest ==
  /\ storeKind = "memory"
  /\ \E e \in { x \in EntryCalls : x.entry = entryKind }, cap \in Caps :
       LET bucket == MemoryGetBucket(store, e.bucketId, cap, WindowSpan, clock)
       IN  /\ store' = With(store, e.bucketId, bucket)
           /\ hist' = Counted(e.bucketId, bucket.tokens)
  /\ UNCHANGED << clock, storeKind, entryKind, rdb, pendingDel, pendingFlush, calls >>

\* rateLimitMiddleware on the redis store, from getBucket to the decision
WindowRedisRequest ==
  /\ storeKind = "redis"
  /\ \E e \in { x \in EntryCalls : x.entry = entryKind }, cap \in Caps :
       LET r == RedisGetBucket(rdb, e.bucketId, cap, WindowSpan, clock)
       IN  /\ rdb' = r.db
           /\ hist' = Counted(e.bucketId, r.bucket.tokens)
  /\ UNCHANGED << clock, storeKind, entryKind, store, pendingDel, pendingFlush, calls >>

WindowNext ==
  \/ WindowTick
  \/ WindowMemoryRequest
  \/ WindowRedisRequest

SpecWindow == WindowInit /\ [][WindowNext]_vars

\* ------------------------------------------------------------- replies
\* RedisRateLimitStore.getBucket against a service whose reply to EVAL is
\* not the script's: besides running the script or rejecting the command,
\* the service may resolve the EVAL to an array that does not begin with 1,
\* leaving the database as it is.
NoSuccessReplies == { << 0, 0, 0, 0 >> }

EvalNoSuccess(c) ==
  /\ calls[c].pc = "eval"
  /\ \E result \in NoSuccessReplies :
       LET b == calls[c].bucketId
           r == RedisAfterEval(rdb, bucketKey(b), calls[c].cap, calls[c].span,
                               calls[c].now, result)
       IN  /\ rdb' = r.db
           /\ hist' = HistOpen(b, TRUE)
           /\ calls' = [ Outdated(b, FALSE) EXCEPT ![c] =
                 [ calls[c] EXCEPT !.pc = "await", !.bucket = r.bucket,
                     !.cap = 0, !.span = 0, !.now = 0, !.ord = 1 ] ]
  /\ UNCHANGED << clock, storeKind, entryKind, store, pendingDel, pendingFlush >>

ReplyInit == Init /\ storeKind = "redis"

ReplyNext ==
  \/ Tick
  \/ \E c \in Calls : RedisCall(c)
  \/ \E c \in Calls : Eval(c)
  \/ \E c \in Calls : EvalError(c)
  \/ \E c \in Calls : EvalNoSuccess(c)
  \/ \E c \in Calls : Resume(c)

SpecReply == ReplyInit /\ [][ReplyNext]_vars

\* ------------------------------------------------------------- claims
\* The bucket records of the store in use, by bucket id.
Buckets ==
  IF storeKind = "memory" THEN store
  ELSE [ b \in { x \in DOMAIN hist : bucketKey(x) \in DOMAIN rdb } |->
           rdb[bucketKey(b)] ]

\* Call c takes the step in which getBucket returns to it / in which it
\* resumes and decides.
Returns(c) == calls[c].pc # "await" /\ calls'[c].pc = "await"
Decides(c) == calls[c].pc = "await" /\ calls'[c].pc = "done"

\* Every call that accessed bucket b in its current window has decided.
AllDecided(b) ==
  \A c \in Calls :
    ~(calls[c].pc = "await" /\ calls[c].bucketId = b /\ ~calls[c].stale)

Max0(n) == IF n > 0 THEN n ELSE 0

\* C1: within one window of a bucket of capacity C (no refill, re-creation
\* or deletion between the accesses) at most C calls are admitted, and a
\* call whose access is the (C+1)-th or a later one of the window is denied.
C1_NoOverAdmission ==
  [][ \A c \in Calls :
        (Decides(c) /\ ~calls[c].stale) =>
          LET b == calls[c].bucketId
              C == Buckets[b].rateLimitAllowedCalls
          IN  /\ hist'[b].adm <= C
              /\ calls[c].ord > C => ~calls'[c].out.admitted ]_vars

\* C1 witness: a window in which C calls were admitted and the (C+1)-th
\* access was made and decided (denied).
C1_Witness ==
  \E b \in DOMAIN Buckets, c \in Calls :
    /\ hist[b].adm = Buckets[b].rateLimitAllowedCalls
    /\ hist[b].acc = Buckets[b].rateLimitAllowedCalls + 1
    /\ AllDecided(b)
    /\ calls[c].pc = "done" /\ calls[c].bucketId = b
    /\ calls[c].out.error # "EvalError" /\ ~calls[c].out.admitted

\* C2 (as stated): memory store, K accesses of a bucket created by the
\* first of them, capacity C < K, all K callers resumed: exactly C admitted.
C2_Orig ==
  storeKind = "memory" =>
    \A b \in DOMAIN Buckets :
      ( /\ hist[b].fresh
        /\ hist[b].acc > Buckets[b].rateLimitAllowedCalls
        /\ AllDecided(b) )
      => hist[b].adm = Buckets[b].rateLimitAllowedCalls

\* C3 (as stated): redis store, K script runs on a bucket created by the
\* first of them, capacity C < K, all K callers resumed: exactly C admitted.
C3_Orig ==
  storeKind = "redis" =>
    \A b \in DOMAIN Buckets :
      ( /\ hist[b].fresh
        /\ hist[b].acc > Buckets[b].rateLimitAllowedCalls
        /\ AllDecided(b) )
      => hist[b].adm = Buckets[b].rateLimitAllowedCalls

\* C4: no update is lost.  After n getBucket accesses in a window, however
\* the callers were interleaved, the stored tokens are those n accesses
\* applied one after another leave: the memory store opens a window with C
\* tokens and every later access takes one while any is left; the script
\* takes one in the opening access as well.
C4_NoLostUpdate ==
  \A b \in DOMAIN Buckets :
    LET C == Buckets[b].rateLimitAllowedCalls
        n == hist[b].acc
    IN  Buckets[b].tokens =
          IF storeKind = "memory" THEN Max0(C - (n - 1)) ELSE Max0(C - n)

\* C4 witness: two callers accessed the same bucket in the same window
\* before either of them resumed.
C4_Witness ==
  \E b \in DOMAIN Buckets, c, d \in Calls :
    /\ c # d
    /\ calls[c].pc = "await" /\ calls[c].bucketId = b /\ ~calls[c].stale
    /\ calls[d].pc = "await" /\ calls[d].bucketId = b /\ ~calls[d].stale
    /\ hist[b].acc >= 2
    /\ Buckets[b].tokens < Buckets[b].rateLimitAllowedCalls

InRange(r) == 0 <= r.tokens /\ r.tokens <= r.rateLimitAllowedCalls

\* C5 (as stated): every stored record and every record getBucket returned
\* has 0 <= tokens <= capacity.
C5_Orig ==
  /\ \A b \in DOMAIN Buckets : InRange(Buckets[b])
  /\ \A c \in Calls : calls[c].pc = "await" => InRange(Deref(c))

\* C6 (as stated): every stored record has resetTime <= lastUpdated.
C6_Orig ==
  \A b \in DOMAIN Buckets : Buckets[b].resetTime <= Buckets[b].lastUpdated

\* C7 (as stated): the access that finds the window elapsed refills before
\* it decides, so the call making that access is admitted.
C7_Orig ==
  [][ \A c \in Calls :
        (Decides(c) /\ calls[c].didReset) => calls'[c].out.admitted ]_vars

\* C8 (as stated): a getBucket call that finds at least one token at its
\* consume decision (after creation or refill) returns that count minus 1.
C8_Orig ==
  [][ \A c \in Calls :
        Returns(c) =>
          LET b == calls'[c].bucketId
              now == IF storeKind = "memory" THEN clock ELSE calls[c].now
              pre == IF b \in DOMAIN Buckets
                     THEN TokensAtDecision(Buckets, b, 0, now)
                     ELSE Buckets'[b].rateLimitAllowedCalls
          IN  pre >= 1 => Deref(c)'.tokens = pre - 1 ]_vars

\* C9 (as stated): sequential calls on a bucket that the first of them
\* created: call k <= C is admitted and sees C - k tokens, call C+1 is
\* denied and sees 0.
C9_Orig ==
  [][ \A c \in Calls :
        LET b == calls[c].bucketId
            k == calls[c].ord
        IN  ( /\ Decides(c) /\ ~calls[c].stale
              /\ hist[b].fresh /\ k = hist[b].acc )
            => LET C == Buckets[b].rateLimitAllowedCalls
               IN  /\ k <= C => ( /\ calls'[c].out.admitted
                                  /\ calls'[c].seen = C - k )
                   /\ k = C + 1 => ( /\ ~calls'[c].out.admitted
                                     /\ calls'[c].seen = 0 ) ]_vars

\* The entry point admits and the protected operation proceeds, nothing is
\* raised and the overflow handler is not invoked / the entry point denies.
Proceeds(o) ==
  o.admitted /\ o.invoked >= 1 /\ o.error = "none" /\ o.handlerCalls = 0
Denies(o) == ~o.admitted

\* C10 (as stated): on the tokens a call saw, with the same overflow-handler
\* configuration, the middleware and the decorator either both proceed or
\* both deny.
C10_Orig ==
  \A c \in Calls :
    (calls[c].pc = "done" /\ calls[c].out.error # "EvalError") =>
      \A h \in BOOLEAN, mr \in MethodResults, hr \in HandlerResults :
        LET m == MiddlewareResume(calls[c].seen, h, hr)
            d == RateLimitResume(calls[c].seen, h, mr, hr)
        IN  (Proceeds(m) /\ Proceeds(d)) \/ (Denies(m) /\ Denies(d))

\* Call c has resumed from getBucket and decided.
Decided(c) == calls[c].pc = "done" /\ calls[c].out.error # "EvalError"

\* C11 (as stated): a call the middleware admitted has called next() exactly
\* once, has not called the exceed handler and has raised nothing.
C11_Orig ==
  \A c \in Calls :
    (Decided(c) /\ calls[c].entry = "middleware" /\ calls[c].out.admitted) =>
      /\ calls[c].out.invoked = 1
      /\ calls[c].out.handlerCalls = 0
      /\ calls[c].out.error = "none"

\* The 429 failure of a denied call: ResponseError, status 429, the fixed
\* message, and neither next() nor the protected method nor a handler ran.
QuotaExceeded(o) ==
  /\ ~o.admitted
  /\ o.error = "ResponseError"
  /\ o.status = 429
  /\ o.message = "Too many requests, please try again later."
  /\ o.invoked = 0
  /\ o.handlerCalls = 0

C13_Orig ==
  \A c \in Calls :
    (Decided(c) /\ calls[c].entry = "decorator" /\ calls[c].seen < 1) =>
      \A mr \in MethodResults, hr \in HandlerOutcomes :
        LET o == RateLimitResume(calls[c].seen, TRUE, mr, hr)
        IN  /\ o.handlerCalls = 1
            /\ o.invoked = 0
            /\ IF hr = Raises THEN o.error = "HandlerError"
                ELSE o.error = "none" /\ o.result = hr

\* C14: when getBucket fails (the EVAL of the call is rejected), the entry
\* point fails with that error, and neither next() nor the protected
\* method nor the exceed handler is invoked.
C14_FailClosed ==
  [][ \A c \in Calls :
        (calls[c].pc = "eval" /\ calls'[c].pc = "done") =>
          /\ calls'[c].out.error = "EvalError"
          /\ ~calls'[c].out.admitted
          /\ calls'[c].out.invoked = 0
          /\ calls'[c].out.handlerCalls = 0 ]_vars

\* C14 witness: a call through the decorator whose getBucket failed.
C14_Witness ==
  \E c \in Calls :
    /\ calls[c].pc = "done" /\ calls[c].entry = "decorator"
    /\ calls[c].out.error = "EvalError"

\* C15 (as stated): an EVAL that is rejected, or that resolves to a result
\* not reporting success, makes getBucket fail (the call ends with the
\* error) and leaves the stored buckets as they were.
C15_Orig ==
  [][ \A c \in Calls :
        (EvalError(c) \/ EvalNoSuccess(c)) =>
          /\ calls'[c].pc = "done"
          /\ calls'[c].out.error = "EvalError"
          /\ rdb' = rdb ]_vars

\* C16 (as stated): no record with capacity <= 0 or window <= 0 is ever
\* stored (getBucket on an absent bucket with such arguments fails and
\* stores nothing).
C16_Orig ==
  \A b \in DOMAIN Buckets :
    Buckets[b].rateLimitAllowedCalls > 0 /\ Buckets[b].rateLimitTimeSpan > 0

\* The tokens a bucket of capacity C holds when getBucket has refilled it:
\* C in the memory store; the script takes one token in the same run.
AfterRefill(C) ==
  IF storeKind = "memory" THEN C ELSE IF C > 0 THEN C - 1 ELSE C

\* C20: capacity and window are taken from the arguments only when the
\* bucket is created.  A getBucket call on an existing bucket, whatever its
\* arguments, leaves the stored capacity and window as they are, and a
\* refill restores the tokens to that stored capacity; the script creates
\* the bucket with the arguments of the creating call.
C20_CreationArguments ==
  [][ /\ \A b \in DOMAIN Buckets :
           b \in DOMAIN Buckets' =>
             /\ Buckets'[b].rateLimitAllowedCalls = Buckets[b].rateLimitAllowedCalls
             /\ Buckets'[b].rateLimitTimeSpan = Buckets[b].rateLimitTimeSpan
             /\ Buckets'[b].resetTime # Buckets[b].resetTime =>
                  Buckets'[b].tokens = AfterRefill(Buckets[b].rateLimitAllowedCalls)
      /\ \A c \in Calls :
           ( /\ calls[c].pc = "eval" /\ calls'[c].pc = "await"
             /\ calls[c].bucketId \notin DOMAIN Buckets ) =>
             /\ Buckets'[calls[c].bucketId].rateLimitAllowedCalls = calls[c].cap
             /\ Buckets'[calls[c].bucketId].rateLimitTimeSpan = calls[c].span ]_vars

\* C20 witness: a getBucket call whose arguments differ in capacity and in
\* window from those the bucket was created with has refilled the bucket
\* (the redis store returns the arguments of the call in its record).
C20_Witness ==
  \E c \in Calls :
    /\ calls[c].pc = "await" /\ calls[c].didReset /\ ~calls[c].alias
    /\ calls[c].bucketId \in DOMAIN Buckets
    /\ calls[c].bucket.rateLimitAllowedCalls
         # Buckets[calls[c].bucketId].rateLimitAllowedCalls
    /\ calls[c].bucket.rateLimitTimeSpan
         # Buckets[calls[c].bucketId].rateLimitTimeSpan
    /\ Buckets[calls[c].bucketId].tokens
         = AfterRefill(Buckets[calls[c].bucketId].rateLimitAllowedCalls)

\* The protected operation a call is made on: the route and HTTP method of
\* the request, or the class and method decorated.
Operation(call) ==
  IF call.entry = "middleware"
  THEN << call.req.baseUrl, call.req.route, call.req.method >>
  ELSE << call.req.className, call.req.methodName >>

\* Call c has resolved its bucket id and accessed the bucket.
Accessed(c) == calls[c].pc \in { "await", "done" }

GlobalScope(c) == calls[c].bucketName = globalBucketId

\* The call carries a caller identity: an id that is neither absent nor null.
HasIdentity(c) == ~Nullish(calls[c].req.userId)

\* C17 (as stated): for one operation, a global-scope call and a per-caller
\* call never use the same bucket, and per-caller calls of two different
\* caller identities never use the same bucket.
C17_Orig ==
  \A c, d \in Calls :
    ( /\ Accessed(c) /\ Accessed(d)
      /\ Operation(calls[c]) = Operation(calls[d]) ) =>
      /\ (GlobalScope(c) /\ ~GlobalScope(d)) =>
           calls[c].bucketId # calls[d].bucketId
      /\ ( /\ ~GlobalScope(c) /\ ~GlobalScope(d)
           /\ calls[c].bucketName = calls[d].bucketName
           /\ HasIdentity(c) /\ HasIdentity(d)
           /\ calls[c].req.userId # calls[d].req.userId ) =>
           calls[c].bucketId # calls[d].bucketId

\* C18 (as stated): global-scope calls on one operation all use one bucket,
\* whoever calls and whatever the concrete path, so that at most
\* rateLimitAllowedCalls of them are admitted within the window; and
\* global-scope calls on two operations use two buckets.
C18_Orig ==
  /\ \A c, d \in Calls :
       (Accessed(c) /\ Accessed(d) /\ GlobalScope(c) /\ GlobalScope(d)) =>
         ( Operation(calls[c]) = Operation(calls[d])
             <=> calls[c].bucketId = calls[d].bucketId )
  /\ \A c \in Calls :
       (Accessed(c) /\ GlobalScope(c)) =>
         Cardinality({ d \in Calls :
                         /\ calls[d].pc = "done" /\ GlobalScope(d)
                         /\ Operation(calls[d]) = Operation(calls[c])
                         /\ calls[d].out.admitted }) <= ScopeAllowedCalls

\* C19 (as stated): under per-caller scope, for one operation, the calls
\* without caller identity (absent or null id) all use one bucket, and a
\* call with a caller identity (0 and "" included) never uses that bucket.
C19_Orig ==
  \A c, d \in Calls :
    ( /\ Accessed(c) /\ Accessed(d)
      /\ ~GlobalScope(c) /\ ~GlobalScope(d)
      /\ calls[c].bucketName = calls[d].bucketName
      /\ Operation(calls[c]) = Operation(calls[d])
      /\ ~HasIdentity(d) ) =>
      ( HasIdentity(c) <=> calls[c].bucketId # calls[d].bucketId )

\* The step executes an explicit removal of bucket b: remove(b) or
\* removeAll() on the memory store, the DEL or FLUSHDB they send on redis.
Removes(b) ==
  \/ MemoryRemove(b)
  \/ MemoryRemoveAll
  \/ RedisDel(bucketKey(b))
  \/ RedisFlushdb

\* C23: no store drops a bucket on its own.  A bucket that exists stays,
\* with its capacity and window, through every getBucket call and every
\* passage of time; it disappears only in a step that executes remove(b)
\* or removeAll().
C23_NoExpiry ==
  [][ \A b \in DOMAIN Buckets :
        IF b \in DOMAIN Buckets'
        THEN /\ Buckets'[b].rateLimitAllowedCalls = Buckets[b].rateLimitAllowedCalls
             /\ Buckets'[b].rateLimitTimeSpan = Buckets[b].rateLimitTimeSpan
        ELSE Removes(b) ]_vars

\* C23 witness: a bucket created at time 0 and last accessed at time 1 is
\* still stored when the clock has reached MaxTime, its window elapsed.
C23_Witness ==
  \E b \in DOMAIN Buckets :
    /\ clock = MaxTime
    /\ Buckets[b].resetTime = 0 /\ Buckets[b].lastUpdated = 1
    /\ clock - Buckets[b].resetTime > Buckets[b].rateLimitTimeSpan

\* The time a getBucket call returning in this step works with.
NowOf(c) == IF storeKind = "memory" THEN clock ELSE calls[c].now

\* C24 (as stated): from the state a getBucket call finds, with its
\* arguments and its now, MemoryRateLimitStore.getBucket and the Lua script
\* store the same tokens, resetTime and lastUpdated and return the same
\* tokens.
C24_Orig ==
  [][ \A c \in Calls :
        Returns(c) =>
          LET b == calls'[c].bucketId
              cap == Buckets'[b].rateLimitAllowedCalls
              span == Buckets'[b].rateLimitTimeSpan
              m == MemoryGetBucket(Buckets, b, cap, span, NowOf(c))
              l == LuaScript(Buckets, b, cap, span, NowOf(c))
          IN  /\ m.tokens = l.hash.tokens
              /\ m.resetTime = l.hash.resetTime
              /\ m.lastUpdated = l.hash.lastUpdated
              /\ m.tokens = l.result[2] ]_vars

\* C26 (as stated): the tokens a suspended caller will read from the record
\* it was given do not change while it is suspended.
C26_Orig ==
  [][ \A c \in Calls :
        (calls[c].pc = "await" /\ calls'[c].pc = "await") =>
          Deref(c)'.tokens = Deref(c).tokens ]_vars

\* C27: within a window tokens never increase.  A getBucket call on an
\* existing bucket with now - resetTime <= rateLimitTimeSpan does not raise
\* tokens, leaves resetTime as it is and leaves tokens = 0 at 0; tokens of
\* an existing bucket rise only in a getBucket call that finds
\* now - resetTime > rateLimitTimeSpan.
C27_NoIncreaseInWindow ==
  [][ /\ \A c \in Calls :
           (Returns(c) /\ calls'[c].bucketId \in DOMAIN Buckets) =>
             LET old == Buckets[calls'[c].bucketId]
                 new == Buckets'[calls'[c].bucketId]
             IN  NowOf(c) - old.resetTime <= old.rateLimitTimeSpan =>
                   /\ new.tokens <= old.tokens
                   /\ new.resetTime = old.resetTime
                   /\ old.tokens = 0 => new.tokens = 0
      /\ \A b \in DOMAIN Buckets :
           (b \in DOMAIN Buckets' /\ Buckets'[b].tokens > Buckets[b].tokens) =>
             \E c \in Calls :
               /\ Returns(c) /\ calls'[c].bucketId = b
               /\ NowOf(c) - Buckets[b].resetTime > Buckets[b].rateLimitTimeSpan
    ]_vars

\* C27 witness: a bucket at tokens = 0 was accessed when now - resetTime
\* was exactly rateLimitTimeSpan and is still at 0 in the same window.
C27_Witness ==
  \E b \in DOMAIN Buckets :
    /\ Buckets[b].tokens = 0
    /\ hist[b].acc > Buckets[b].rateLimitAllowedCalls
    /\ Buckets[b].lastUpdated - Buckets[b].resetTime = Buckets[b].rateLimitTimeSpan

\* C28 (as stated): the record getBucket returns equals, field by field,
\* the record stored under the bucket id by that call.
C28_Orig ==
  [][ \A c \in Calls :
        Returns(c) => Deref(c)' = Buckets'[calls'[c].bucketId] ]_vars

\* C29 (as stated): a call the decorator admitted has invoked the protected
\* method exactly once; a call it denied has not invoked it.
C29_Orig ==
  \A c \in Calls :
    (Decided(c) /\ calls[c].entry = "decorator") =>
      calls[c].out.invoked = IF calls[c].out.admitted THEN 1 ELSE 0

\* C30 (as stated): when the promise of remove(bucketId) or removeAll()
\* resolves, the deletion has taken effect: the bucket (every bucket) is
\* gone from the store, so that a getBucket started afterwards finds it
\* absent.
C30_Orig ==
  [][ /\ \A b \in DOMAIN hist :
           ( \/ MemoryRemove(b)
             \/ (bucketKey(b) \notin pendingDel /\ bucketKey(b) \in pendingDel') )
           => b \notin DOMAIN Buckets'
      /\ (MemoryRemoveAll \/ (~pendingFlush /\ pendingFlush')) =>
           DOMAIN Buckets' = {} ]_vars

\* The stored state of the service behind the store kind in use.
Stored == IF storeKind = "memory" THEN store ELSE rdb

\* The key bucket b is stored under.
StoredKey(b) == IF storeKind = "memory" THEN b ELSE bucketKey(b)

\* C21: remove(bucketId) deletes exactly that bucket and is idempotent.
\* The step that carries out remove(b) leaves the stored state without b
\* and everything else as it was, so on an id without a bucket (a second
\* remove included) it changes nothing; the getBucket call that then finds
\* the id absent creates a record from its own arguments, with the tokens
\* of a new bucket.
C21_RemoveExactlyThat ==
  [][ /\ \A b \in BucketIds :
           (MemoryRemove(b) \/ RedisDel(bucketKey(b))) =>
             /\ DOMAIN Stored' = DOMAIN Stored \ { StoredKey(b) }
             /\ \A k \in DOMAIN Stored' : Stored'[k] = Stored[k]
             /\ b \notin DOMAIN Buckets => Stored' = Stored
      /\ \A c \in Calls :
           (Returns(c) /\ calls'[c].bucketId \notin DOMAIN Buckets) =>
             LET r == Buckets'[calls'[c].bucketId]
             IN  /\ r.tokens = AfterRefill(r.rateLimitAllowedCalls)
                 /\ r.resetTime = NowOf(c) /\ r.lastUpdated = NowOf(c)
                 /\ storeKind = "redis" =>
                      /\ r.rateLimitAllowedCalls = calls[c].cap
                      /\ r.rateLimitTimeSpan = calls[c].span ]_vars

\* C21 witness: a caller still holds the record of a bucket that was
\* removed, the id has a new bucket created by the first getBucket after
\* the removal, and the bucket of the other entry point is still stored.
C21_Witness ==
  \E c, d \in Calls : \E b, other \in DOMAIN Buckets :
    /\ other # b
    /\ calls[c].pc = "await" /\ calls[c].bucketId = b /\ calls[c].stale
    /\ calls[d].pc = "await" /\ calls[d].bucketId = b /\ ~calls[d].stale
    /\ hist[b].fresh /\ hist[b].acc = 1
    /\ hist[other].acc > 1

\* C22 (as stated): the step that carries out removeAll() leaves no bucket
\* of the store, and leaves every entry of the backing service that is not
\* a bucket record under keyPrefix as it was.
C22_Orig ==
  [][ (MemoryRemoveAll \/ RedisFlushdb) =>
        /\ DOMAIN Buckets' = {}
        /\ \A k \in DOMAIN rdb :
             ~IsBucketKey(k) => (k \in DOMAIN rdb' /\ rdb'[k] = rdb[k]) ]_vars

\* The requests on bucket b admitted at the instants from..to.
RECURSIVE AdmittedIn(_, _, _)
AdmittedIn(b, from, to) ==
  IF from > to THEN 0
  ELSE (IF from \in DOMAIN hist[b] THEN hist[b][from] ELSE 0)
       + AdmittedIn(b, from + 1, to)

\* C25 (as stated): for a bucket of capacity C and window W, the requests
\* admitted at the W consecutive instants of any interval of length W,
\* wherever it starts, are at most C.
C25_Orig ==
  \A b \in DOMAIN Buckets : \A start \in WindowTimes :
    AdmittedIn(b, start, start + Buckets[b].rateLimitTimeSpan - 1)
      <= Buckets[b].rateLimitAllowedCalls

====
